---- MODULE Spec2Model ----
(***************************************************************************)
(* Model of stactools.geoparquet_items.commands: the `create` command      *)
(* (STAC Items -> GeoParquet, optionally partitioned through dask) and the *)
(* `convert` command (GeoParquet -> OGR format with column exclusion).     *)
(*                                                                         *)
(* One destination path and one collection document are shared by a        *)
(* sequence of `create` invocations; `convert` runs on its own, under      *)
(* ConvertSpec.                                                            *)
(***************************************************************************)
EXTENDS Integers, Sequences, FiniteSets, Bags, TLC

\* Bounds of the model.
MaxItems == 3        \* records in a remote body / item files in a directory
MaxPartition == 2    \* largest --partition value tried
MaxRuns == 2         \* create invocations run in sequence

VARIABLES
    pc,             \* position of the running create command
    run,            \* number of create invocations started so far
    source,         \* argument SOURCE of the running invocation
    partition,      \* option --partition
    collection,     \* option --collection (a path, "" when not given)
    dest,           \* what the file system holds at DESTINATION
    destBefore,     \* what it held when the running invocation started
    collectionDoc,  \* the collection JSON document on disk
    docBefore,      \* the document when the running invocation started
    items,          \* local `items`
    paths,          \* local `paths` (unbound until the directory branch binds it)
    bag,            \* local `bag` (None until a partitioned branch builds it)
    tasks,          \* state of each delayed to_parquet task under dask.compute
    outcome,        \* how the invocation ended
    envFault,       \* an external collaborator (network, codec, file system) failed
    cpc,            \* position of the running convert command
    sourceExists,   \* whether convert's SOURCE path exists
    cexclude,       \* option --exclude of convert
    schema,         \* column names of the parquet file convert reads
    to_exclude,     \* local `to_exclude`
    columns,        \* local `columns` (None reads every column)
    exported,       \* column names of the file convert wrote
    coutcome        \* how convert ended

createVars == <<pc, run, source, partition, collection, dest, destBefore,
                collectionDoc, docBefore, items, paths, bag, tasks, outcome,
                envFault>>
convertVars == <<cpc, sourceExists, cexclude, schema, to_exclude, columns,
                 exported, coutcome>>
vars == <<createVars, convertVars>>

----------------------------------------------------------------------------
\* Arithmetic helpers.

Min(a, b) == IF a < b THEN a ELSE b

\* math.ceil(a / b) for a >= 0, b > 0.
Ceil(a, b) == (a + b - 1) \div b

----------------------------------------------------------------------------
\* Inputs of create.

FeatureType == "Feature"
ItemTypes == {FeatureType, "FeatureCollection"}

\* The JSON documents a source can hold: position-identified, with a `type`.
RecordsOf(tv) == [i \in 1..Len(tv) |-> [id |-> i, type |-> tv[i]]]

TypeVectors == UNION {[1..n -> ItemTypes] : n \in 0..MaxItems}

FileName(stem, ext) == [stem |-> stem, ext |-> ext]

\* Files that are not items, as a STAC directory tree holds them.
ExtraFiles ==
    << [name |-> FileName("catalog", ".json"), doc |-> [id |-> 101, type |-> "Catalog"]],
       [name |-> FileName("collection", ".json"), doc |-> [id |-> 102, type |-> "Collection"]],
       [name |-> FileName("README", ".md"), doc |-> [id |-> 103, type |-> "text"]] >>

ItemFilesOf(tv) ==
    [i \in 1..Len(tv) |-> [name |-> FileName("item", ".json"), doc |-> RecordsOf(tv)[i]]]

RemoteSource(hasFeatures, recs) ==
    [kind |-> "url", hasFeatures |-> hasFeatures, features |-> recs, files |-> <<>>]
DirectorySource(files) ==
    [kind |-> "dir", hasFeatures |-> FALSE, features |-> <<>>, files |-> files]
MissingSource ==
    [kind |-> "none", hasFeatures |-> FALSE, features |-> <<>>, files |-> <<>>]

Sources ==
    {RemoteSource(TRUE, RecordsOf(tv)) : tv \in TypeVectors}
    \cup {RemoteSource(FALSE, <<>>)}
    \cup {DirectorySource(ItemFilesOf(tv)) : tv \in TypeVectors}
    \cup {DirectorySource(ExtraFiles \o ItemFilesOf(tv)) : tv \in TypeVectors}
    \cup {MissingSource}

Partitions == 1..MaxPartition
CollectionPaths == {"", "collection.json"}

----------------------------------------------------------------------------
\* The destination path.

Absent == [kind |-> "absent", run |-> 0, rows |-> <<>>, files |-> {}]
FileAt(r, rows) == [kind |-> "file", run |-> r, rows |-> rows, files |-> {}]
DirAt(r, files) == [kind |-> "dir", run |-> r, rows |-> <<>>, files |-> files]

\* f"{destination}/part.{i}.parquet"
PartName(i) == <<"part", i, "parquet">>

\* Lines 57-61 without the rmtree branch: a directory is left in place.
ClearedKeepDir(d) == IF d.kind = "dir" THEN d ELSE Absent

\* Lines 57-61: rmtree of a directory, unlink (missing_ok) of anything else.
ClearedDestination(d) == IF d.kind = "dir" THEN Absent ELSE Absent

\* Line 64: p.mkdir() raises FileExistsError when the path exists.
MadeDirectory(d, r) ==
    IF d.kind = "absent"
    THEN [ok |-> TRUE, dest |-> DirAt(r, {})]
    ELSE [ok |-> FALSE, dest |-> d]

\* Lines 57-65, with mkdir(exist_ok=True) in place of the clearing of a directory.
PreparedExistOk(d, n, r) ==
    IF n > 1
    THEN [ok |-> TRUE, dest |-> IF d.kind = "dir" THEN d ELSE DirAt(r, {})]
    ELSE [ok |-> TRUE, dest |-> ClearedDestination(d)]

\* Lines 57-65: the destination after clearing and, when partitioned, mkdir.
PreparedDestination(d, n, r) ==
    LET cleared == ClearedDestination(d)
    IN  IF n > 1 THEN MadeDirectory(cleared, r) ELSE [ok |-> TRUE, dest |-> cleared]

\* Line 127: df.to_parquet(destination) replaces a file, fails on a directory.
WrittenFile(d, rows, r) ==
    IF d.kind = "dir"
    THEN [ok |-> FALSE, dest |-> d]
    ELSE [ok |-> TRUE, dest |-> FileAt(r, rows)]

\* Line 108: obj.to_parquet(f"{destination}/part.{i}.parquet") inside the directory.
WrittenPart(d, name, rows, r) ==
    DirAt(d.run, {f \in d.files : f.name # name}
                 \cup {[name |-> name, run |-> r, rows |-> rows]})

----------------------------------------------------------------------------
\* Record extraction.

Unbound == [bound |-> FALSE, val |-> <<>>]
Bound(s) == [bound |-> TRUE, val |-> s]

\* Line 69.
IsRemote(s) == s.kind = "url"
\* Line 79.
PathExists(s) == s.kind = "dir"

\* Lines 72-74: response.json().get("features"), [] when the key is absent.
RemoteItems(s) == IF s.hasFeatures THEN s.features ELSE <<>>

\* Lines 84-90: which names os.walk's files are kept as potential items.
IsPotentialItem(name) ==
    IF name.ext # ".json" THEN FALSE
    ELSE IF (name.stem = "catalog" /\ name.ext = ".json")
            \/ (name.stem = "collection" /\ name.ext = ".json") THEN FALSE
    ELSE TRUE

\* Lines 81-90.
WalkedPaths(s) == SelectSeq(s.files, LAMBDA f : IsPotentialItem(f.name))

\* Lines 97-98 / 115-116: read and parse each path.
ParsedDocs(ps) == [i \in 1..Len(ps) |-> ps[i].doc]

\* Lines 99 / 117: item["type"] == "Feature".
IsFeature(item) == item.type = FeatureType
OnlyFeatures(recs) == SelectSeq(recs, IsFeature)

\* toolz.partition_all(n, seq) as dask.bag.from_sequence calls it.
PartitionAll(n, seq) ==
    IF n = 0 THEN <<>>
    ELSE [k \in 1..Ceil(Len(seq), n) |->
             SubSeq(seq, (k - 1) * n + 1, Min(k * n, Len(seq)))]

\* Lines 77 / 96: db.from_sequence(seq, npartitions=partition), for the
\* sequences of at most 100 elements the model reaches: chunks of
\* ceil(len / npartitions) elements, one empty partition for an empty sequence.
FromSequence(seq, npartitions) ==
    LET partition_size == Ceil(Len(seq), npartitions)
        parts == PartitionAll(partition_size, seq)
    IN  IF Len(parts) > 0 THEN parts ELSE << <<>> >>

NoBag == [set |-> FALSE, lazy |-> FALSE, parts |-> <<>>]
\* Line 77: a bag over the already parsed records, no filter.
ItemBag(recs, n) == [set |-> TRUE, lazy |-> FALSE, parts |-> FromSequence(recs, n)]
\* Lines 95-100: a bag over the paths; read, parse and filter run in the task.
PathBag(ps, n) == [set |-> TRUE, lazy |-> TRUE, parts |-> FromSequence(ps, n)]

\* Lines 67-100: the locals once the source has been read.
ExtractedLocals(s, n) ==
    IF IsRemote(s)
    THEN [items |-> RemoteItems(s), paths |-> Unbound,
          bag |-> IF n > 1 THEN ItemBag(RemoteItems(s), n) ELSE NoBag]
    ELSE IF PathExists(s)
    THEN [items |-> <<>>, paths |-> Bound(WalkedPaths(s)),
          bag |-> IF n > 1 THEN PathBag(WalkedPaths(s), n) ELSE NoBag]
    ELSE [items |-> <<>>, paths |-> Unbound, bag |-> NoBag]

\* Line 104: the records partition k hands to stac_geoparquet.to_geodataframe.
PartitionRows(b, k) ==
    IF b.lazy THEN OnlyFeatures(ParsedDocs(b.parts[k])) ELSE b.parts[k]

\* Lines 104 / 122-124: to_geodataframe needs at least one record.
CanBuild(rows) == Len(rows) > 0

\* Lines 107-110: one to_parquet task per partition, named by enumerate's index.
SubmittedTasks(b) ==
    [k \in 1..Len(b.parts) |-> [name |-> PartName(k - 1), state |-> "pending"]]

\* Lines 114-118: the single-batch loop appends the Feature documents to items.
LoadedItems(its, ps) == its \o OnlyFeatures(ParsedDocs(ps))

\* Lines 114-131: what the single-batch path does with the locals: the error it
\* raises ("none" when it writes) and the rows it has loaded.
SingleBatchOutcome(its, ps) ==
    IF ~ps.bound
    THEN [error |-> "UnboundLocalError", rows |-> its]
    ELSE LET loaded == LoadedItems(its, ps.val)
         IN  [error |-> IF CanBuild(loaded) THEN "none" ELSE "NoRecordsFound",
              rows |-> loaded]

\* Line 111 returning as soon as one task has finished.
AnyFinished(t) == \E k \in 1..Len(t) : t[k].state = "done"
\* Line 111: dask.compute returns once every task has finished, and raises
\* when one has failed.
AllFinished(t) == \A k \in 1..Len(t) : t[k].state = "done"
AnyFailed(t) == \E k \in 1..Len(t) : t[k].state = "failed"

----------------------------------------------------------------------------
\* The collection document.

GeoparquetAsset ==
    [key |-> "geoparquet-items", href |-> "destination",
     type |-> "application/x-parquet", roles |-> <<"stac-items">>,
     title |-> "GeoParquet STAC Items"]
\* The document before any create ran: no "assets" key yet.
InitialDoc == [hasAssets |-> FALSE, assets |-> {}, writes |-> 0]

\* Line 133.
ShouldLink(c) == Len(c) > 0

\* Lines 135-149: add or overwrite assets["geoparquet-items"], rewrite the file.
AmendedDoc(doc) ==
    [hasAssets |-> TRUE,
     assets |-> {a \in (IF doc.hasAssets THEN doc.assets ELSE {}) :
                    a.key # GeoparquetAsset.key} \cup {GeoparquetAsset},
     writes |-> doc.writes + 1]

----------------------------------------------------------------------------
\* create_command.

Ended == pc \in {"done", "failed"}

Fail(why, fault) ==
    /\ pc' = "failed"
    /\ outcome' = why
    /\ envFault' = (envFault \/ fault)

\* Invocation of the command with its arguments.
Start ==
    /\ pc = "idle"
    /\ run < MaxRuns
    /\ \E s \in Sources, n \in Partitions, c \in CollectionPaths :
          /\ source' = s
          /\ partition' = n
          /\ collection' = c
    /\ run' = run + 1
    /\ pc' = "prepare"
    /\ destBefore' = dest
    /\ docBefore' = collectionDoc
    /\ items' = <<>>
    /\ paths' = Unbound
    /\ bag' = NoBag
    /\ tasks' = <<>>
    /\ outcome' = "running"
    /\ envFault' = FALSE
    /\ UNCHANGED <<dest, collectionDoc, convertVars>>

\* Lines 57-65.
PrepareDestination ==
    /\ pc = "prepare"
    /\ LET r == PreparedDestination(dest, partition, run)
       IN  /\ dest' = r.dest
           /\ IF r.ok
              THEN pc' = "extract" /\ UNCHANGED <<outcome, envFault>>
              ELSE Fail("FileExistsError", FALSE)
    /\ UNCHANGED <<run, source, partition, collection, destBefore, collectionDoc,
                   docBefore, items, paths, bag, tasks, convertVars>>

\* Lines 69-77: the remote branch.
ExtractRemote ==
    /\ pc = "extract"
    /\ IsRemote(source)
    /\ \E fault \in BOOLEAN :
          IF fault
          THEN /\ Fail("SourceUnavailable", TRUE)
               /\ UNCHANGED <<items, bag>>
          ELSE /\ items' = ExtractedLocals(source, partition).items
               /\ bag' = ExtractedLocals(source, partition).bag
               /\ pc' = "dispatch"
               /\ UNCHANGED <<outcome, envFault>>
    /\ UNCHANGED <<run, source, partition, collection, dest, destBefore,
                   collectionDoc, docBefore, paths, tasks, convertVars>>

\* Lines 79-100: the file system branch.
ExtractLocal ==
    /\ pc = "extract"
    /\ ~IsRemote(source)
    /\ PathExists(source)
    /\ paths' = ExtractedLocals(source, partition).paths
    /\ bag' = ExtractedLocals(source, partition).bag
    /\ pc' = "dispatch"
    /\ UNCHANGED <<run, source, partition, collection, dest, destBefore,
                   collectionDoc, docBefore, items, tasks, outcome, envFault,
                   convertVars>>

\* Neither branch of lines 69-100 is taken.
ExtractNothing ==
    /\ pc = "extract"
    /\ ~IsRemote(source)
    /\ ~PathExists(source)
    /\ pc' = "dispatch"
    /\ UNCHANGED <<run, source, partition, collection, dest, destBefore,
                   collectionDoc, docBefore, items, paths, bag, tasks, outcome,
                   envFault, convertVars>>

\* Lines 102-110: the delayed tasks are built, then handed to dask.compute.
SubmitTasks ==
    /\ pc = "dispatch"
    /\ bag.set
    /\ tasks' = SubmittedTasks(bag)
    /\ pc' = "compute"
    /\ UNCHANGED <<run, source, partition, collection, dest, destBefore,
                   collectionDoc, docBefore, items, paths, bag, outcome, envFault,
                   convertVars>>

\* One task of line 111: build the partition's dataframe and write its file.
\* A task may fail on its input or its output; it does fail on a partition
\* without records, which to_geodataframe cannot turn into a dataframe (line
\* 122 guards the single-batch call for that reason).
RunTask(k) ==
    /\ pc = "compute"
    /\ tasks[k].state = "pending"
    /\ \E fault \in (IF CanBuild(PartitionRows(bag, k)) THEN BOOLEAN ELSE {TRUE}) :
          IF fault
          THEN /\ tasks' = [tasks EXCEPT ![k].state = "failed"]
               /\ envFault' = (envFault \/ CanBuild(PartitionRows(bag, k)))
               /\ UNCHANGED dest
          ELSE /\ tasks' = [tasks EXCEPT ![k].state = "done"]
               /\ dest' = WrittenPart(dest, tasks[k].name, PartitionRows(bag, k), run)
               /\ UNCHANGED envFault
    /\ UNCHANGED <<pc, run, source, partition, collection, destBefore,
                   collectionDoc, docBefore, items, paths, bag, outcome,
                   convertVars>>

\* Line 111 returns.
ComputeDone ==
    /\ pc = "compute"
    /\ AllFinished(tasks)
    /\ pc' = "link"
    /\ UNCHANGED <<run, source, partition, collection, dest, destBefore,
                   collectionDoc, docBefore, items, paths, bag, tasks, outcome,
                   envFault, convertVars>>

\* Line 111 raises the exception of a failed task.
ComputeRaise ==
    /\ pc = "compute"
    /\ AnyFailed(tasks)
    /\ Fail("PartitionFailed", FALSE)
    /\ UNCHANGED <<run, source, partition, collection, dest, destBefore,
                   collectionDoc, docBefore, items, paths, bag, tasks, convertVars>>

\* Lines 113-131: the single-batch path.
SingleBatch ==
    /\ pc = "dispatch"
    /\ ~bag.set
    /\ \E fault \in (IF Len(paths.val) > 0 THEN BOOLEAN ELSE {FALSE}) :
          IF fault
          THEN \* a file cannot be read or parsed, or the codec rejects a record
               /\ Fail("PipelineError", TRUE)
               /\ UNCHANGED <<items, dest>>
          ELSE LET o == SingleBatchOutcome(items, paths)
                   w == WrittenFile(dest, o.rows, run)
               IN  /\ items' = o.rows
                   /\ IF o.error = "none"
                      THEN /\ dest' = w.dest
                           /\ IF w.ok
                              THEN pc' = "link" /\ UNCHANGED <<outcome, envFault>>
                              ELSE Fail("IsADirectoryError", FALSE)
                      ELSE /\ Fail(o.error, FALSE)
                           /\ UNCHANGED dest
    /\ UNCHANGED <<run, source, partition, collection, destBefore, collectionDoc,
                   docBefore, paths, bag, tasks, convertVars>>

\* Lines 133-152.
Link ==
    /\ pc = "link"
    /\ IF ShouldLink(collection)
       THEN \E fault \in BOOLEAN :
               IF fault
               THEN /\ Fail("MetadataDocumentInvalid", TRUE)
                    /\ UNCHANGED collectionDoc
               ELSE /\ collectionDoc' = AmendedDoc(collectionDoc)
                    /\ pc' = "done"
                    /\ outcome' = "ok"
                    /\ UNCHANGED envFault
       ELSE /\ pc' = "done"
            /\ outcome' = "ok"
            /\ UNCHANGED <<collectionDoc, envFault>>
    /\ UNCHANGED <<run, source, partition, collection, dest, destBefore,
                   docBefore, items, paths, bag, tasks, convertVars>>

\* The process exits; only the file system keeps state.
Finish ==
    /\ Ended
    /\ pc' = "idle"
    /\ source' = MissingSource
    /\ partition' = 1
    /\ collection' = ""
    /\ destBefore' = Absent
    /\ docBefore' = collectionDoc
    /\ items' = <<>>
    /\ paths' = Unbound
    /\ bag' = NoBag
    /\ tasks' = <<>>
    /\ outcome' = "none"
    /\ envFault' = FALSE
    /\ UNCHANGED <<run, dest, collectionDoc, convertVars>>

----------------------------------------------------------------------------
\* Strings of convert, as sequences of characters.

Col_type == <<"t", "y", "p", "e">>
Col_stac_version == <<"s", "t", "a", "c", "_", "v", "e", "r", "s", "i", "o", "n">>
Col_assets == <<"a", "s", "s", "e", "t", "s">>
Col_id == <<"i", "d">>
Col_geometry == <<"g", "e", "o", "m", "e", "t", "r", "y">>

Str_none == <<"n", "o", "n", "e">>
Str_NONE == <<"N", "O", "N", "E">>
Str_None == <<"N", "o", "n", "e">>
Str_nOnE == <<"n", "O", "n", "E">>
Str_type_id_spaced == <<" ", "t", "y", "p", "e", " ", ",", " ", "i", "d", " ">>
Str_geometry_extra == <<"g", "e", "o", "m", "e", "t", "r", "y", "_", "e", "x", "t", "r", "a">>
Str_type_type == <<"t", "y", "p", "e", ",", "t", "y", "p", "e">>
Str_id_assets == <<"i", "d", ",", "a", "s", "s", "e", "t", "s">>

Comma == ","
Whitespace == {" "}

\* Line 22.
IGNORE_FIELDS == <<Col_stac_version, Col_type, Col_assets>>

\* sep.join(list)
RECURSIVE Join(_, _)
Join(list, sep) ==
    IF Len(list) = 0 THEN <<>>
    ELSE IF Len(list) = 1 THEN list[1]
    ELSE list[1] \o <<sep>> \o Join(Tail(list), sep)

\* str.split(sep): every separator splits, empty pieces are kept.
RECURSIVE Split(_, _)
Split(str, sep) ==
    IF \A i \in 1..Len(str) : str[i] # sep THEN <<str>>
    ELSE LET i == CHOOSE j \in 1..Len(str) :
                     str[j] = sep /\ \A h \in 1..(j - 1) : str[h] # sep
         IN  <<SubSeq(str, 1, i - 1)>> \o Split(SubSeq(str, i + 1, Len(str)), sep)

\* str.strip()
RECURSIVE Strip(_)
Strip(str) ==
    IF Len(str) = 0 THEN str
    ELSE IF str[1] \in Whitespace THEN Strip(Tail(str))
    ELSE IF str[Len(str)] \in Whitespace THEN Strip(SubSeq(str, 1, Len(str) - 1))
    ELSE str

\* list.remove(x): drops the first occurrence, raises ValueError when there is none.
Remove(list, x) ==
    IF \A i \in 1..Len(list) : list[i] # x
    THEN [ok |-> FALSE, val |-> list]
    ELSE LET i == CHOOSE j \in 1..Len(list) :
                     list[j] = x /\ \A h \in 1..(j - 1) : list[h] # x
         IN  [ok |-> TRUE,
              val |-> SubSeq(list, 1, i - 1) \o SubSeq(list, i + 1, Len(list))]

----------------------------------------------------------------------------
\* Inputs of convert.

\* The --exclude option: a string, or None when the function is called without it.
NotGiven == [given |-> FALSE, text |-> <<>>]
Given(str) == [given |-> TRUE, text |-> str]

\* Line 162: the option's default.
DefaultExclude == Given(Join(IGNORE_FIELDS, Comma))

ExcludeValues ==
    { NotGiven, DefaultExclude,
      Given(Str_none), Given(Str_NONE), Given(Str_None), Given(Str_nOnE),
      Given(Col_type), Given(Str_type_id_spaced), Given(Str_geometry_extra),
      Given(Str_type_type), Given(Str_id_assets), Given(<<>>) }

\* Schemas of geoparquet files: id and geometry, and any of the other columns.
OptionalColumns == {Col_type, Col_stac_version, Col_assets}
SchemaOf(present) ==
    SelectSeq(<<Col_type, Col_stac_version, Col_id, Col_geometry, Col_assets>>,
              LAMBDA c : c \notin OptionalColumns \/ c \in present)
Schemas == {SchemaOf(present) : present \in SUBSET OptionalColumns}

----------------------------------------------------------------------------
\* convert_command.

NoColumns == [given |-> FALSE, names |-> <<>>]
Columns(names) == [given |-> TRUE, names |-> names]

\* Lines 192-197.
ResolvedExclusion(exclude) ==
    IF ~exclude.given THEN IGNORE_FIELDS
    ELSE IF exclude.text = Str_none \/ exclude.text = Str_NONE THEN <<>>
    ELSE Split(exclude.text, Comma)

\* Lines 203-204: the loop, stopped by the first ValueError.
RECURSIVE RemovedEach(_, _)
RemovedEach(names, excl) ==
    IF Len(excl) = 0 THEN [ok |-> TRUE, val |-> names]
    ELSE LET r == Remove(names, Strip(excl[1]))
         IN  IF r.ok THEN RemovedEach(r.val, Tail(excl)) ELSE r

\* Line 206: columns=None reads every column of the file.
ReadColumns(cols, names) == IF cols.given THEN cols.names ELSE names

ConvertEnded == cpc \in {"done", "failed"}

ConvertStart ==
    /\ cpc = "idle"
    /\ sourceExists' \in BOOLEAN
    /\ cexclude' \in ExcludeValues
    /\ schema' \in Schemas
    /\ to_exclude' = <<>>
    /\ columns' = NoColumns
    /\ exported' = <<>>
    /\ coutcome' = "running"
    /\ cpc' = "check"
    /\ UNCHANGED createVars

\* Lines 189-190.
CheckSource ==
    /\ cpc = "check"
    /\ IF sourceExists
       THEN cpc' = "resolve" /\ UNCHANGED coutcome
       ELSE cpc' = "failed" /\ coutcome' = "SourceMissing"
    /\ UNCHANGED <<sourceExists, cexclude, schema, to_exclude, columns, exported,
                   createVars>>

\* Lines 192-197.
ResolveExclusion ==
    /\ cpc = "resolve"
    /\ to_exclude' = ResolvedExclusion(cexclude)
    /\ cpc' = "filter"
    /\ UNCHANGED <<sourceExists, cexclude, schema, columns, exported, coutcome,
                   createVars>>

\* Lines 199-204.
FilterColumns ==
    /\ cpc = "filter"
    /\ IF Len(to_exclude) > 0
       THEN LET r == RemovedEach(schema, to_exclude)
            IN  IF r.ok
                THEN /\ columns' = Columns(r.val)
                     /\ cpc' = "export"
                     /\ UNCHANGED coutcome
                ELSE /\ columns' = Columns(r.val)
                     /\ cpc' = "failed"
                     /\ coutcome' = "ValueError"
       ELSE /\ cpc' = "export"
            /\ UNCHANGED <<columns, coutcome>>
    /\ UNCHANGED <<sourceExists, cexclude, schema, to_exclude, exported, createVars>>

\* Lines 206-209.
Export ==
    /\ cpc = "export"
    /\ exported' = ReadColumns(columns, schema)
    /\ cpc' = "done"
    /\ coutcome' = "ok"
    /\ UNCHANGED <<sourceExists, cexclude, schema, to_exclude, columns, createVars>>

\* The process exits.
ConvertFinish ==
    /\ ConvertEnded
    /\ cpc' = "idle"
    /\ sourceExists' = FALSE
    /\ cexclude' = NotGiven
    /\ schema' = <<>>
    /\ to_exclude' = <<>>
    /\ columns' = NoColumns
    /\ exported' = <<>>
    /\ coutcome' = "none"
    /\ UNCHANGED createVars

----------------------------------------------------------------------------

Init ==
    /\ pc = "idle"
    /\ run = 0
    /\ source = MissingSource
    /\ partition = 1
    /\ collection = ""
    /\ dest = Absent
    /\ destBefore = Absent
    /\ collectionDoc = InitialDoc
    /\ docBefore = collectionDoc
    /\ items = <<>>
    /\ paths = Unbound
    /\ bag = NoBag
    /\ tasks = <<>>
    /\ outcome = "none"
    /\ envFault = FALSE
    /\ cpc = "idle"
    /\ sourceExists = FALSE
    /\ cexclude = NotGiven
    /\ schema = <<>>
    /\ to_exclude = <<>>
    /\ columns = NoColumns
    /\ exported = <<>>
    /\ coutcome = "none"

Next ==
    \/ Start
    \/ PrepareDestination
    \/ ExtractRemote
    \/ ExtractLocal
    \/ ExtractNothing
    \/ SubmitTasks
    \/ \E k \in 1..Len(tasks) : RunTask(k)
    \/ ComputeDone
    \/ ComputeRaise
    \/ SingleBatch
    \/ Link
    \/ Finish

Spec == Init /\ [][Next]_vars

ConvertNext ==
    \/ ConvertStart
    \/ CheckSource
    \/ ResolveExclusion
    \/ FilterColumns
    \/ Export
    \/ ConvertFinish

ConvertSpec == Init /\ [][ConvertNext]_vars

----------------------------------------------------------------------------
\* Vocabulary of the properties.

\* The Feature records a source holds.
FeatureRecords(s) ==
    IF IsRemote(s) THEN OnlyFeatures(RemoteItems(s))
    ELSE IF PathExists(s) THEN OnlyFeatures(ParsedDocs(WalkedPaths(s)))
    ELSE <<>>

\* What create does with a source when run with --partition 1.
SingleBatchResult(s) ==
    SingleBatchOutcome(ExtractedLocals(s, 1).items, ExtractedLocals(s, 1).paths)

SeqBag(seq) ==
    [x \in {seq[i] : i \in 1..Len(seq)} |-> Cardinality({i \in 1..Len(seq) : seq[i] = x})]

RECURSIVE FilesBag(_)
FilesBag(files) ==
    IF files = {} THEN EmptyBag
    ELSE LET f == CHOOSE g \in files : TRUE
         IN  SeqBag(f.rows) (+) FilesBag(files \ {f})

\* The rows the destination holds, over all of its files.
DestRows(d) == IF d.kind = "file" THEN SeqBag(d.rows) ELSE FilesBag(d.files)

\* Nothing at the destination was put there by an earlier invocation.
NothingOlder ==
    /\ dest.kind # "absent" => dest.run = run
    /\ \A f \in dest.files : f.run = run

\* Every submitted task has written its file during this invocation.
EveryPartWritten ==
    /\ dest.kind = "dir"
    /\ \A k \in 1..Len(tasks) :
          /\ tasks[k].state = "done"
          /\ \E f \in dest.files : f.name = tasks[k].name /\ f.run = run

ArtifactWritten ==
    IF bag.set THEN EveryPartWritten ELSE dest.kind = "file" /\ dest.run = run

LowerChar(c) ==
    CASE c = "N" -> "n" [] c = "O" -> "o" [] c = "E" -> "e" [] OTHER -> c
Lowered(str) == [i \in 1..Len(str) |-> LowerChar(str[i])]

\* The entries of the exclusion list as the caller wrote it.
ExclusionEntries(exclude) ==
    LET list == IF exclude.given THEN Split(exclude.text, Comma) ELSE IGNORE_FIELDS
    IN  {Strip(list[i]) : i \in 1..Len(list)}

----------------------------------------------------------------------------
\* Properties of create.

\* C1: a create run whose source holds no Feature record ends with the
\* "no items available" error and leaves nothing at the destination, whatever
\* the source form and the partition count.
C1_NoRecordsSignalledNothingWritten ==
    (Ended /\ ~envFault /\ Len(FeatureRecords(source)) = 0)
        => (outcome = "NoRecordsFound" /\ dest.kind = "absent")

\* C2: with partition <= 1 and a source (remote or directory) holding at least
\* one Feature record, create succeeds and the destination is one file whose
\* rows are the extracted records in input order.
C2_SingleBatchWritesOneFile ==
    (Ended /\ ~envFault /\ partition <= 1 /\ Len(FeatureRecords(source)) >= 1)
        => (/\ pc = "done"
            /\ dest.kind = "file"
            /\ dest.rows = FeatureRecords(source))

\* C3: every row of every file create writes comes from a record whose type
\* is "Feature".
C3_OnlyFeatureRows ==
    /\ \A i \in 1..Len(dest.rows) : dest.rows[i].type = FeatureType
    /\ \A f \in dest.files : \A i \in 1..Len(f.rows) : f.rows[i].type = FeatureType

\* C4: for any partition count, the rows over all files a successful create
\* wrote are, as a multiset, the rows of the single-batch result for the same
\* source.
C4_PartitioningPreservesRows ==
    (pc = "done")
        => (/\ SingleBatchResult(source).error = "none"
            /\ DestRows(dest) = SeqBag(SingleBatchResult(source).rows))

\* C5: a successful create with partition count N > 1 leaves a directory that
\* holds exactly the N files part.0.parquet .. part.(N-1).parquet.
C5_ExactlyNPartFiles ==
    (pc = "done" /\ partition > 1)
        => (/\ dest.kind = "dir"
            /\ {f.name : f \in dest.files} = {PartName(i) : i \in 0..(partition - 1)})

\* C6: after a second (or later) create on the same destination has succeeded,
\* the destination is that run's artifact and holds no file of an earlier run.
C6_OnlyLastRunsArtifact ==
    (pc = "done" /\ run >= 2)
        => (/\ dest.kind \in {"file", "dir"}
            /\ dest.kind = (IF partition > 1 THEN "dir" ELSE "file")
            /\ NothingOlder)

\* C6 witness: a second run that wrote fewer part files than the first left.
C6_Witness ==
    /\ pc = "done"
    /\ run = 2
    /\ destBefore.kind = "dir"
    /\ Cardinality(destBefore.files) = 2
    /\ dest.kind = "dir"
    /\ Cardinality(dest.files) = 1

C10_PreviousArtifactGone ==
    (run >= 1 /\ pc \notin {"idle", "prepare"}) => NothingOlder

\* C10 witness: a run that failed for want of records, after a run that had
\* left a directory of part files.
C10_Witness ==
    /\ pc = "failed"
    /\ outcome = "NoRecordsFound"
    /\ destBefore.kind = "dir"
    /\ destBefore.files # {}
    /\ dest.kind = "absent"

----------------------------------------------------------------------------
\* Properties of convert.

\* C7: convert succeeds whatever the exclusion list, and exports the schema's
\* columns minus the listed ones; an entry naming no column is ignored.
C7_AbsentExclusionIgnored ==
    (ConvertEnded /\ sourceExists /\ Lowered(cexclude.text) # Str_none)
        => (/\ coutcome = "ok"
            /\ exported = SelectSeq(schema,
                                    LAMBDA c : c \notin ExclusionEntries(cexclude)))

\* C8: --exclude none, in any letter case, exports every column of the schema.
C8_NoneInAnyCaseKeepsAll ==
    (ConvertEnded /\ sourceExists /\ cexclude.given
        /\ Lowered(cexclude.text) = Str_none)
        => (coutcome = "ok" /\ exported = schema)

====
